---- MODULE Spec2Model ----
(***************************************************************************)
(* Grover's search demo: circuits/grover.py (index_to_bitstring,           *)
(* build_oracle, build_diffuser, build_grover_circuit) and main.py         *)
(* (recommend_iterations, run_grover).                                     *)
(*                                                                         *)
(* A circuit is a sequence of instructions.  The state vector is real      *)
(* (X, H, Z and MCX have real matrices) and is kept exactly: the amplitude *)
(* of basis index k is amp[k] / sqrt(2)^hexp, amp[k] an integer.           *)
(* Basis index k holds qubit q in bit q (qubit 0 is the least significant  *)
(* bit); a counts key shows classical bit n-1 first and bit 0 last.        *)
(***************************************************************************)
EXTENDS Integers, Sequences, FiniteSets, TLC

VARIABLES pc, call, iters, qc, err, gates, ip, psi, start, counts, shotsLeft, ret

vars == <<pc, call, iters, qc, err, gates, ip, psi, start, counts, shotsLeft, ret>>

\* ---------------------------------------------------------------- bounds
MaxN == 3
MaxIter == 2
MaxShots == 2

\* pi^2 = 9.8696..., as PiSqNum / PiSqDen
PiSqNum == 98696
PiSqDen == 10000

\* ------------------------------------------------------------- arithmetic
RECURSIVE Pow2(_)
Pow2(e) == IF e <= 0 THEN 1 ELSE 2 * Pow2(e - 1)

Bit(k, q) == (k \div Pow2(q)) % 2

Flip(k, q) == IF Bit(k, q) = 1 THEN k - Pow2(q) ELSE k + Pow2(q)

Max(a, b) == IF a >= b THEN a ELSE b

\* ------------------------------------------------------ index_to_bitstring
Digit(b) == IF b = 1 THEN "1" ELSE "0"

RECURSIVE BinDigits(_)
BinDigits(m) == IF m < 2 THEN <<Digit(m)>> ELSE BinDigits(m \div 2) \o <<Digit(m % 2)>>

Zeros(w) == [i \in 1..w |-> "0"]

\* format(index, "0{n}b"): sign first, then zero padding up to width n, then
\* the binary digits; never truncated, never an error for an integer index
index_to_bitstring(index, n) ==
    IF index >= 0
    THEN Zeros(n - Len(BinDigits(index))) \o BinDigits(index)
    ELSE <<"-">> \o Zeros(n - 1 - Len(BinDigits(-index))) \o BinDigits(-index)

\* ------------------------------------------------------------ instructions
NoInstr == <<>>

Gate(op, q, ctrl) == [op |-> op, q |-> q, ctrl |-> ctrl, c |-> -1, defn |-> NoInstr]

XGate(q) == Gate("x", q, {})
HGate(q) == Gate("h", q, {})
ZGate(q) == Gate("z", q, {})
MCXGate(ctrl, q) == Gate("mcx", q, ctrl)

\* qc.measure(qubit, clbit)
MeasureInstr(q, c) == [op |-> "measure", q |-> q, ctrl |-> {}, c |-> c, defn |-> NoInstr]

\* circuit.to_instruction(): one instruction holding the circuit's gates
ToInstruction(name, body) == [op |-> name, q |-> -1, ctrl |-> {}, c |-> -1, defn |-> body]

Raise(e) == [err |-> e, body |-> <<>>]
Return(body) == [err |-> "none", body |-> body]

\* qc.h(range(n)), qc.x(range(n)): one gate per qubit, in qubit order
HAll(n) == [i \in 1..n |-> HGate(i - 1)]
XAll(n) == [i \in 1..n |-> XGate(i - 1)]

\* faulty variant: the X gates put on the '1' bits instead of the '0' bits
RECURSIVE FlipOnes(_, _)
FlipOnes(bs, i) ==
    IF i > Len(bs) THEN <<>>
    ELSE (IF bs[i] = "1" THEN <<XGate(i - 1)>> ELSE <<>>) \o FlipOnes(bs, i + 1)

\* for i, b in enumerate(bs): if b == "0": qc.x(i)
RECURSIVE FlipZeros(_, _)
FlipZeros(bs, i) ==
    IF i > Len(bs) THEN <<>>
    ELSE (IF bs[i] = "0" THEN <<XGate(i - 1)>> ELSE <<>>) \o FlipZeros(bs, i + 1)

\* faulty variant: the closing H on the target left out
MultiControlledZ_NoClosingH(n) ==
    IF n = 1 THEN <<HGate(0), ZGate(0)>>
    ELSE <<HGate(n - 1), MCXGate(0..(n - 2), n - 1)>>

\* the multi-controlled Z on qubits 0..n-1: Z for n = 1, else H, MCX, H on n-1
MultiControlledZ(n) ==
    IF n = 1 THEN <<ZGate(0)>>
    ELSE <<HGate(n - 1), MCXGate(0..(n - 2), n - 1), HGate(n - 1)>>

\* the library refuses a gate on a qubit the circuit does not have
QubitsOk(body, n) == \A i \in DOMAIN body : body[i].q \in 0..(n - 1)

\* faulty variant: the upper end of the range off by one
MarkedInRange_OffByOne(n, marked_index) == ~(marked_index < 0 \/ marked_index > Pow2(n))

MarkedInRange(n, marked_index) == ~(marked_index < 0 \/ marked_index >= Pow2(n))

build_oracle(n, marked_index) ==
    IF ~MarkedInRange(n, marked_index) THEN Raise("ValueError")
    ELSE LET bs == index_to_bitstring(marked_index, n)
             body == FlipZeros(bs, 1) \o MultiControlledZ(n) \o FlipZeros(bs, 1)
         IN  IF QubitsOk(body, n) THEN Return(body) ELSE Raise("CircuitError")

\* faulty variant: the closing H layer left out
build_diffuser_NoClosingH(n) ==
    Return(HAll(n) \o XAll(n) \o MultiControlledZ(n) \o XAll(n))

build_diffuser(n) ==
    Return(HAll(n) \o XAll(n) \o MultiControlledZ(n) \o XAll(n) \o HAll(n))

\* faulty variant: the diffuser appended before the oracle
RECURSIVE GroverLoop_DiffuserFirst(_, _, _)
GroverLoop_DiffuserFirst(oracle, diffuser, iterations) ==
    IF iterations <= 0 THEN <<>>
    ELSE <<ToInstruction("Diffuser", diffuser), ToInstruction("Oracle", oracle)>>
         \o GroverLoop_DiffuserFirst(oracle, diffuser, iterations - 1)

\* for _ in range(iterations): append oracle, append diffuser
RECURSIVE GroverLoop(_, _, _)
GroverLoop(oracle, diffuser, iterations) ==
    IF iterations <= 0 THEN <<>>
    ELSE <<ToInstruction("Oracle", oracle), ToInstruction("Diffuser", diffuser)>>
         \o GroverLoop(oracle, diffuser, iterations - 1)

MeasureAll(n) == [i \in 1..n |-> MeasureInstr(i - 1, i - 1)]

build_grover_circuit(n, marked_index, iterations) ==
    IF n < 1 THEN Raise("ValueError")
    ELSE LET oracle == build_oracle(n, marked_index)
             diffuser == build_diffuser(n)
         IN  IF oracle.err # "none" THEN Raise(oracle.err)
             ELSE Return(HAll(n)
                         \o GroverLoop(oracle.body, diffuser.body, iterations)
                         \o MeasureAll(n))

\* ------------------------------------------------------ recommend_iterations
\* floor((pi / 4) * sqrt(N)): the largest k with 16 k^2 <= pi^2 N
RECURSIVE FloorQuarterPiSqrt(_, _)
FloorQuarterPiSqrt(N, k) ==
    IF 16 * (k + 1) * (k + 1) * PiSqDen <= PiSqNum * N
    THEN FloorQuarterPiSqrt(N, k + 1) ELSE k

\* faulty variant: the floor returned as it is, without max(1, .)
recommend_iterations_NoMax(n) ==
    IF n < 0 THEN 0 ELSE FloorQuarterPiSqrt(Pow2(n), 0)

\* 2 ** n is below 1 for n < 0, and then the floor is 0
recommend_iterations(n) ==
    Max(1, IF n < 0 THEN 0 ELSE FloorQuarterPiSqrt(Pow2(n), 0))

\* `if iterations is None`: None is <<>>, a given value k is <<k>>
None == <<>>

\* faulty variant: `if not iterations`, which also replaces an explicit 0
EffectiveIterations_Falsy(n, iterations) ==
    IF iterations = None \/ iterations = <<0>> THEN recommend_iterations(n)
    ELSE iterations[1]

EffectiveIterations(n, iterations) ==
    IF iterations = None THEN recommend_iterations(n) ELSE iterations[1]

\* ------------------------------------------------------------ state vector
Basis(n) == 0..(Pow2(n) - 1)

AllEven(amp) == \A k \in DOMAIN amp : amp[k] % 2 = 0

\* the same vector with the least exponent: amp / sqrt(2)^hexp = (amp/2) / sqrt(2)^(hexp-2)
RECURSIVE Reduce(_)
Reduce(sv) ==
    IF sv.hexp >= 2 /\ AllEven(sv.amp)
    THEN Reduce([amp |-> [k \in DOMAIN sv.amp |-> sv.amp[k] \div 2], hexp |-> sv.hexp - 2])
    ELSE sv

GateX(sv, q) == [amp |-> [k \in DOMAIN sv.amp |-> sv.amp[Flip(k, q)]], hexp |-> sv.hexp]

GateZ(sv, q) ==
    [amp |-> [k \in DOMAIN sv.amp |-> IF Bit(k, q) = 1 THEN -sv.amp[k] ELSE sv.amp[k]],
     hexp |-> sv.hexp]

\* faulty variant: the 1/sqrt(2) factor of H left out
GateH_Unnormalized(sv, q) ==
    [amp |-> [k \in DOMAIN sv.amp |->
                 IF Bit(k, q) = 0 THEN sv.amp[k] + sv.amp[Flip(k, q)]
                 ELSE sv.amp[Flip(k, q)] - sv.amp[k]],
     hexp |-> sv.hexp]

GateH(sv, q) ==
    Reduce([amp |-> [k \in DOMAIN sv.amp |->
                        IF Bit(k, q) = 0 THEN sv.amp[k] + sv.amp[Flip(k, q)]
                        ELSE sv.amp[Flip(k, q)] - sv.amp[k]],
            hexp |-> sv.hexp + 1])

GateMCX(sv, ctrl, q) ==
    [amp |-> [k \in DOMAIN sv.amp |->
                 IF \A c \in ctrl : Bit(k, c) = 1 THEN sv.amp[Flip(k, q)] ELSE sv.amp[k]],
     hexp |-> sv.hexp]

\* all amplitude on index 0
ZeroState(n) == [amp |-> [k \in Basis(n) |-> IF k = 0 THEN 1 ELSE 0], hexp |-> 0]

BasisState(n, j) == [amp |-> [k \in Basis(n) |-> IF k = j THEN 1 ELSE 0], hexp |-> 0]

Uniform(n) == [amp |-> [k \in Basis(n) |-> 1], hexp |-> n]

\* (|0..0> - |1..1>) / sqrt(2)
Cat(n) ==
    [amp |-> [k \in Basis(n) |-> IF k = 0 THEN 1 ELSE IF k = Pow2(n) - 1 THEN -1 ELSE 0],
     hexp |-> 1]

StartVectors(n) == {BasisState(n, j) : j \in Basis(n)} \cup {Uniform(n), Cat(n)}

NoVector == [amp |-> <<>>, hexp |-> 0]

\* transpile: every composite instruction replaced by its gates
RECURSIVE Flatten(_)
Flatten(c) ==
    IF c = <<>> THEN <<>>
    ELSE (IF Head(c).defn = NoInstr THEN <<Head(c)>> ELSE Head(c).defn) \o Flatten(Tail(c))

\* ------------------------------------------------------------------ counts
\* the measure instructions of the circuit: classical bit c holds qubit q
ClbitValue(k, c, circuit) ==
    IF \E i \in DOMAIN circuit : circuit[i].op = "measure" /\ circuit[i].c = c
    THEN LET i == CHOOSE i \in DOMAIN circuit : circuit[i].op = "measure" /\ circuit[i].c = c
         IN  Bit(k, circuit[i].q)
    ELSE 0

\* get_counts(): the key shows classical bit n-1 first, classical bit 0 last
CountsKey(k, n, circuit) == [j \in 1..n |-> Digit(ClbitValue(k, n - j, circuit))]

Keys(n) == {index_to_bitstring(j, n) : j \in Basis(n)}

NoCounts == <<>>

\* ------------------------------------------------------------------- state
NoCall == [fn |-> "none", n |-> 0, marked |-> 0, iterations |-> None, shots |-> 0]

Init ==
    /\ pc = "idle"
    /\ call = NoCall
    /\ iters = 0
    /\ qc = <<>>
    /\ err = "none"
    /\ gates = <<>>
    /\ ip = 1
    /\ psi = NoVector
    /\ start = NoVector
    /\ counts = NoCounts
    /\ shotsLeft = 0
    /\ ret = <<>>

\* index_to_bitstring(index, n) called on its own
CallIndexToBitstring(index, n) ==
    /\ pc = "idle"
    /\ call' = [fn |-> "index_to_bitstring", n |-> n, marked |-> index,
                iterations |-> None, shots |-> 0]
    /\ ret' = index_to_bitstring(index, n)
    /\ pc' = "done"
    /\ UNCHANGED <<iters, qc, err, gates, ip, psi, start, counts, shotsLeft>>

\* build_oracle(n, marked_index) called on its own, its gates then run on sv
CallBuildOracle(n, marked_index, sv) ==
    /\ pc = "idle"
    /\ call' = [fn |-> "build_oracle", n |-> n, marked |-> marked_index,
                iterations |-> None, shots |-> 0]
    /\ LET r == build_oracle(n, marked_index)
       IN  /\ err' = r.err
           /\ qc' = r.body
           /\ gates' = r.body
           /\ pc' = IF r.err = "none" THEN "running" ELSE "error"
           /\ psi' = IF r.err = "none" THEN sv ELSE NoVector
           /\ start' = IF r.err = "none" THEN sv ELSE NoVector
    /\ ip' = 1
    /\ UNCHANGED <<iters, counts, shotsLeft, ret>>

\* build_diffuser(n) called on its own, its gates then run twice in a row on sv
CallBuildDiffuser(n, sv) ==
    /\ pc = "idle"
    /\ call' = [fn |-> "build_diffuser", n |-> n, marked |-> 0,
                iterations |-> None, shots |-> 0]
    /\ LET r == build_diffuser(n)
       IN  /\ err' = r.err
           /\ qc' = r.body
           /\ gates' = r.body \o r.body
    /\ pc' = "running"
    /\ psi' = sv
    /\ start' = sv
    /\ ip' = 1
    /\ UNCHANGED <<iters, counts, shotsLeft, ret>>

\* run_grover(n, marked, shots, iterations) up to backend.run
CallRunGrover(n, marked, shots, iterations) ==
    /\ pc = "idle"
    /\ call' = [fn |-> "run_grover", n |-> n, marked |-> marked,
                iterations |-> iterations, shots |-> shots]
    /\ iters' = EffectiveIterations(n, iterations)
    /\ LET r == build_grover_circuit(n, marked, EffectiveIterations(n, iterations))
       IN  /\ err' = r.err
           /\ qc' = r.body
           /\ gates' = Flatten(r.body)
           /\ pc' = IF r.err = "none" THEN "running" ELSE "error"
           /\ psi' = IF r.err = "none" THEN ZeroState(n) ELSE NoVector
           /\ start' = IF r.err = "none" THEN ZeroState(n) ELSE NoVector
    /\ ip' = 1
    /\ UNCHANGED <<counts, shotsLeft, ret>>

AtGate(op) == pc = "running" /\ ip <= Len(gates) /\ gates[ip].op = op

ApplyX ==
    /\ AtGate("x")
    /\ psi' = GateX(psi, gates[ip].q)
    /\ ip' = ip + 1
    /\ UNCHANGED <<pc, call, iters, qc, err, gates, start, counts, shotsLeft, ret>>

ApplyH ==
    /\ AtGate("h")
    /\ psi' = GateH(psi, gates[ip].q)
    /\ ip' = ip + 1
    /\ UNCHANGED <<pc, call, iters, qc, err, gates, start, counts, shotsLeft, ret>>

ApplyZ ==
    /\ AtGate("z")
    /\ psi' = GateZ(psi, gates[ip].q)
    /\ ip' = ip + 1
    /\ UNCHANGED <<pc, call, iters, qc, err, gates, start, counts, shotsLeft, ret>>

ApplyMCX ==
    /\ AtGate("mcx")
    /\ psi' = GateMCX(psi, gates[ip].ctrl, gates[ip].q)
    /\ ip' = ip + 1
    /\ UNCHANGED <<pc, call, iters, qc, err, gates, start, counts, shotsLeft, ret>>

\* the gates of a circuit without measurement are used up
Finish ==
    /\ pc = "running"
    /\ ip > Len(gates)
    /\ pc' = "done"
    /\ UNCHANGED <<call, iters, qc, err, gates, ip, psi, start, counts, shotsLeft, ret>>

\* the terminal measurement of all qubits: sampling starts from the final vector
Measure ==
    /\ AtGate("measure")
    /\ \A i \in ip..Len(gates) : gates[i].op = "measure"
    /\ ip' = Len(gates) + 1
    /\ counts' = [key \in Keys(call.n) |-> 0]
    /\ shotsLeft' = call.shots
    /\ pc' = "sampling"
    /\ UNCHANGED <<call, iters, qc, err, gates, psi, start, ret>>

\* one shot: any basis index of non-zero probability
Shot ==
    /\ pc = "sampling"
    /\ shotsLeft > 0
    /\ \E k \in DOMAIN psi.amp :
          /\ psi.amp[k] # 0
          /\ counts' = [counts EXCEPT ![CountsKey(k, call.n, gates)] = @ + 1]
    /\ shotsLeft' = shotsLeft - 1
    /\ pc' = IF shotsLeft = 1 THEN "done" ELSE "sampling"
    /\ UNCHANGED <<call, iters, qc, err, gates, ip, psi, start, ret>>

NRange == (-1)..MaxN
IterationsRange == {None} \cup {<<k>> : k \in (-1)..MaxIter}

CallIndexToBitstringAny ==
    \E n \in 1..MaxN : \E index \in (-1)..Pow2(n) : CallIndexToBitstring(index, n)

CallBuildOracleAny ==
    \E n \in 1..MaxN : \E m \in (-1)..Pow2(n) : \E sv \in StartVectors(n) :
        CallBuildOracle(n, m, sv)

CallBuildDiffuserAny ==
    \E n \in 1..MaxN : \E sv \in StartVectors(n) : CallBuildDiffuser(n, sv)

CallRunGroverAny ==
    \E n \in NRange : \E m \in (-1)..Pow2(n) : \E s \in 1..MaxShots :
        \E it \in IterationsRange : CallRunGrover(n, m, s, it)

Next ==
    \/ CallIndexToBitstringAny
    \/ CallBuildOracleAny
    \/ CallBuildDiffuserAny
    \/ CallRunGroverAny
    \/ ApplyX
    \/ ApplyH
    \/ ApplyZ
    \/ ApplyMCX
    \/ Finish
    \/ Measure
    \/ Shot

Spec == Init /\ [][Next]_vars

\* ------------------------------------------------------------------ claims
RanGrover == call.fn = "run_grover"

Measured == RanGrover /\ pc \in {"sampling", "done"}

Sq(x) == x * x

\* the basis index in which qubit i holds bit i of the MSB-first bitstring of m
MarkedBasisIndex(n, m) ==
    CHOOSE k \in Basis(n) : \A i \in 0..(n - 1) : Bit(k, i) = Bit(m, n - 1 - i)

RECURSIVE SumSq(_, _)
SumSq(amp, k) == IF k < 0 THEN 0 ELSE Sq(amp[k]) + SumSq(amp, k - 1)

NormSq(sv) == SumSq(sv.amp, Cardinality(DOMAIN sv.amp) - 1)

Negated(sv) == [amp |-> [k \in DOMAIN sv.amp |-> -sv.amp[k]], hexp |-> sv.hexp]

RecommendedRun == Measured /\ call.n \in 1..3 /\ iters = recommend_iterations(call.n)

\* C1 (as stated): with the recommended iteration count and n in {1,2,3}, the
\* marked outcome is strictly more likely than every other outcome and has
\* probability at least 1/2.
C1_Original ==
    RecommendedRun =>
        LET t == MarkedBasisIndex(call.n, call.marked)
        IN  /\ \A k \in Basis(call.n) \ {t} : Sq(psi.amp[t]) > Sq(psi.amp[k])
            /\ 2 * Sq(psi.amp[t]) >= Pow2(psi.hexp)

\* C1 (amended): with the recommended iteration count the marked outcome has
\* probability at least 1/2 for n in {1,2,3}; it is strictly ahead of every
\* other outcome for n in {2,3}, and for n = 1 both outcomes have probability
\* exactly 1/2.
C1_MarkedMostLikely ==
    RecommendedRun =>
        LET t == MarkedBasisIndex(call.n, call.marked)
        IN  /\ 2 * Sq(psi.amp[t]) >= Pow2(psi.hexp)
            /\ call.n \in {2, 3} =>
                  \A k \in Basis(call.n) \ {t} : Sq(psi.amp[t]) > Sq(psi.amp[k])
            /\ call.n = 1 =>
                  \A k \in Basis(call.n) : 2 * Sq(psi.amp[k]) = Pow2(psi.hexp)

C1_Witness ==
    /\ RecommendedRun
    /\ call.n = 3 /\ call.marked = 3 /\ call.iterations = None /\ iters = 2
    /\ 128 * Sq(psi.amp[6]) = 121 * Pow2(psi.hexp)

\* C2 (as stated): n=2, marked_index=2, iterations=1: the highest-count key of
\* the returned counts is "10", with more than a quarter of the shots.
C2_HighestKeyIsMarkedBitstring ==
    (pc = "done" /\ RanGrover /\ call.n = 2 /\ call.marked = 2 /\ iters = 1) =>
        /\ 4 * counts[<<"1", "0">>] > call.shots
        /\ \A key \in DOMAIN counts \ {<<"1", "0">>} : counts[key] < counts[<<"1", "0">>]

\* C3: build_oracle(n, marked_index) negates the amplitude of the basis state in
\* which qubit i holds bit i of the MSB-first bitstring and leaves every other
\* amplitude as it was.
C3_OracleFlipsOnlyMarked ==
    (pc = "done" /\ call.fn = "build_oracle") =>
        /\ psi.hexp = start.hexp
        /\ \A k \in Basis(call.n) :
              psi.amp[k] = IF k = MarkedBasisIndex(call.n, call.marked)
                           THEN -start.amp[k] ELSE start.amp[k]

C3_Witness ==
    /\ pc = "done" /\ call.fn = "build_oracle"
    /\ call.n = 3 /\ call.marked = 3
    /\ start = Uniform(3)
    /\ psi.amp[6] = -1 /\ psi.amp[3] = 1 /\ psi.hexp = 3

\* C4: the gates of build_diffuser(n) applied twice give back the starting
\* vector up to a global phase (for real vectors: the vector or its negation).
C4_DiffuserTwiceIsIdentity ==
    (pc = "done" /\ call.fn = "build_diffuser") =>
        (psi = start \/ psi = Negated(start))

C4_Witness ==
    /\ pc = "done" /\ call.fn = "build_diffuser"
    /\ call.n = 3 /\ start = Cat(3) /\ ip = Len(gates) + 1 /\ Len(gates) = 30

\* C5: while a circuit of build_grover_circuit runs from all amplitude on index
\* 0, the squared amplitudes sum to 1 after every gate.
C5_NormalizedAfterEveryGate ==
    (RanGrover /\ pc \in {"running", "sampling", "done"}) =>
        NormSq(psi) = Pow2(psi.hexp)

C5_Witness ==
    /\ RanGrover /\ pc = "running" /\ call.n = 3
    /\ ip > 1 /\ ip <= Len(gates) /\ gates[ip - 1].op = "mcx" /\ psi.hexp > 0

\* C6: build_oracle with marked_index outside [0, 2^n), and build_grover_circuit
\* with n < 1 or marked_index outside [0, 2^n), raise ValueError and return no
\* circuit.
C6_InvalidParametersRejected ==
    (\/ call.fn = "build_oracle" /\ (call.marked < 0 \/ call.marked >= Pow2(call.n))
     \/ RanGrover /\ (call.n < 1 \/ call.marked < 0 \/ call.marked >= Pow2(call.n)))
    => (pc = "error" /\ err = "ValueError" /\ qc = <<>> /\ gates = <<>>)

C6_Witness ==
    /\ call.fn = "build_oracle" /\ call.n = 2 /\ call.marked = 4
    /\ pc = "error" /\ err = "ValueError"

\* C7 (as stated): index_to_bitstring with an index outside [0, 2^n) fails with
\* an error instead of returning a string.
C7_BitstringRejectsOutOfRange ==
    (call.fn = "index_to_bitstring" /\ (call.marked < 0 \/ call.marked >= Pow2(call.n)))
    => (pc = "error" /\ err = "ValueError" /\ ret = <<>>)

C9_CircuitOrder ==
    (RanGrover /\ err = "none") =>
        LET n == call.n
            k == IF iters < 0 THEN 0 ELSE iters
        IN  /\ Len(qc) = 2 * n + 2 * k
            /\ \A i \in 1..n : qc[i].op = "h" /\ qc[i].q = i - 1
            /\ \A j \in 1..k : /\ qc[n + 2 * j - 1].op = "Oracle"
                               /\ qc[n + 2 * j].op = "Diffuser"
            /\ \A i \in 1..n : /\ qc[n + 2 * k + i].op = "measure"
                               /\ qc[n + 2 * k + i].q = i - 1
            /\ Cardinality({i \in DOMAIN qc : qc[i].op = "Oracle"}) = k
            /\ Cardinality({i \in DOMAIN qc : qc[i].op = "Diffuser"}) = k

C9_Witness ==
    /\ RanGrover /\ err = "none" /\ pc = "done"
    /\ call.n = 3 /\ call.iterations = <<2>> /\ Len(qc) = 10
    /\ qc[4].op = "Oracle" /\ qc[7].op = "Diffuser"

\* C10: iterations <= 0 with valid n and marked_index raises nothing: the circuit
\* is H on every qubit then the measurement, with no Oracle or Diffuser, and all
\* 2^n outcomes have probability 1/2^n; run_grover replaces iterations by the
\* recommendation only when it is None.
C10_NonPositiveIterations ==
    RanGrover =>
        /\ call.iterations = None => iters = recommend_iterations(call.n)
        /\ call.iterations # None => iters = call.iterations[1]
        /\ (/\ call.iterations # None /\ call.iterations[1] <= 0
            /\ call.n >= 1 /\ call.marked >= 0 /\ call.marked < Pow2(call.n)) =>
              /\ err = "none" /\ pc # "error"
              /\ Len(qc) = 2 * call.n
              /\ \A i \in 1..call.n : qc[i].op = "h" /\ qc[call.n + i].op = "measure"
              /\ pc \in {"sampling", "done"} =>
                    \A k \in Basis(call.n) : Sq(psi.amp[k]) * Pow2(call.n) = Pow2(psi.hexp)

C10_Witness ==
    /\ RanGrover /\ pc = "done" /\ call.iterations = <<0>> /\ iters = 0
    /\ call.n = 3 /\ call.marked = 5 /\ psi = Uniform(3)

====
